---------------------------- MODULE Spec2Model ----------------------------
(***************************************************************************)
(* A model of stock_dashboard.py: the two fetch wrappers, the indicator   *)
(* pipeline (add_indicators), the scorecard renderer and build_dashboard, *)
(* the function that fetches every instrument and fills the 5 x 8 grid.   *)
(*                                                                         *)
(* Numbers.  Prices are integers; every float the program derives from     *)
(* them is an exact rational, so float rounding is not modelled: a percent *)
(* change, a rolling mean or an RSI is [n, d] in lowest terms with d > 0,  *)
(* and a row of an EMA column, too long for that form, is the sequence of  *)
(* its residues modulo a list of primes.  NaN prices are not modelled: an  *)
(* absent value is the record Absent.                                      *)
(***************************************************************************)
EXTENDS Integers, Sequences, FiniteSets, TLC

VARIABLES
    pc,           \* position of the running function
    i,            \* index of the loop pc is in
    quotes,       \* build_dashboard: quotes      (dict, as a sequence of [k, v])
    idx_quotes,   \* build_dashboard: idx_quotes  (dict, as a sequence of [k, v])
    hist,         \* build_dashboard: spy_hist, aapl_hist, tsla_hist, nvda_hist
    sector_perf,  \* build_dashboard: sector_perf (dict, as a sequence of [k, v])
    panels,       \* fig.axes: the subplots created so far, in creation order
    err,          \* the exception that escaped, "" when none
    regime,       \* data source: what it answers by default during this run
    deviations,   \* data source: answers so far that were not the default
    arg,          \* argument of the function applied on its own
    ret           \* its result

vars == <<pc, i, quotes, idx_quotes, hist, sector_perf, panels, err,
          regime, deviations, arg, ret>>

---------------------------------------------------------------------------
(* Program constants *)

WATCHLIST == <<"Apple", "Microsoft", "NVIDIA", "Amazon", "Google", "Tesla",
               "Meta", "Netflix">>
INDICES   == <<"S&P 500", "NASDAQ", "Dow Jones", "VIX">>
SECTORS   == <<"Technology", "Healthcare", "Financials", "Energy", "Consumer",
               "Industrials", "Utilities", "Real Estate">>
HISTS     == <<"SPY", "AAPL", "TSLA", "NVDA">>

GREEN == "#2ca02c"
RED   == "#d62728"

GridRows == 5
GridCols == 8

None   == [tag |-> "None"]
Absent == [tag |-> "NaN"]

---------------------------------------------------------------------------
(* Exact rationals standing for the program's floats *)

Abs(x) == IF x < 0 THEN -x ELSE x

RECURSIVE GCD(_, _)
GCD(a, b) == IF b = 0 THEN a ELSE GCD(b, a % b)

Rat(n, d) ==
    LET g == GCD(Abs(n), Abs(d))
        s == IF d < 0 THEN -1 ELSE 1
    IN  [n |-> (s * n) \div g, d |-> (s * d) \div g]

RatInt(k) == [n |-> k, d |-> 1]

\* Sums over the least common denominator and products with the common
\* factors cancelled first, so that intermediate integers stay small
RatAdd(a, b) ==
    IF a.d = b.d THEN Rat(a.n + b.n, a.d)
    ELSE LET g == GCD(a.d, b.d)
         IN  Rat(a.n * (b.d \div g) + b.n * (a.d \div g), (a.d \div g) * b.d)

RatSub(a, b) == RatAdd(a, [n |-> -b.n, d |-> b.d])

RatMul(a, b) ==
    IF a.d = b.d /\ a.d = 1 THEN RatInt(a.n * b.n)
    ELSE LET g1 == GCD(Abs(a.n), b.d)
             g2 == GCD(Abs(b.n), a.d)
             h1 == IF g1 = 0 THEN 1 ELSE g1
             h2 == IF g2 = 0 THEN 1 ELSE g2
         IN  Rat((a.n \div h1) * (b.n \div h2), (a.d \div h2) * (b.d \div h1))

\* a / b; a zero b gives the signed infinity n/0 that float division by a
\* zero numpy value gives
RatDiv(a, b) ==
    IF b.n < 0 THEN RatMul(a, [n |-> -b.d, d |-> -b.n])
    ELSE IF b.n = 0 THEN Rat(a.n, 0)
    ELSE RatMul(a, [n |-> b.d, d |-> b.n])

RatLess(a, b) == a.n * b.d < b.n * a.d
RatLeq(a, b)  == a.n * b.d <= b.n * a.d

---------------------------------------------------------------------------
(* Rationals beyond machine integers.  A row of an EMA column is a mean of *)
(* all rows up to it with weights ((span - 1) / (span + 1))^j, and Signal  *)
(* is such a mean of differences of such means: in lowest terms its 22nd   *)
(* row has some 400 digits above and below the line.  A rational n/d of    *)
(* this kind, a Big value, is kept as the sequence of its residues         *)
(* n * d^(-1) modulo the primes of PRIMES, and is added, multiplied and    *)
(* divided residue by residue.  PRIMES are the 240 primes from 43711 to    *)
(* 46337.  Their product exceeds 10^1116, so two rationals with fewer than *)
(* 558 digits in each numerator and denominator have the same residues     *)
(* only if they are equal: the numerator of their difference is below the  *)
(* product and divisible by every prime.  No prime divides a denominator   *)
(* that occurs (PrimesFit).                                                *)

PRIMES ==
    <<46337, 46327, 46309, 46307, 46301, 46279, 46273, 46271, 46261, 46237,
      46229, 46219, 46199, 46187, 46183, 46181, 46171, 46153, 46147, 46141,
      46133, 46103, 46099, 46093, 46091, 46073, 46061, 46051, 46049, 46027,
      46021, 45989, 45979, 45971, 45959, 45953, 45949, 45943, 45893, 45887,
      45869, 45863, 45853, 45841, 45833, 45827, 45823, 45821, 45817, 45779,
      45767, 45763, 45757, 45751, 45737, 45707, 45697, 45691, 45677, 45673,
      45667, 45659, 45641, 45631, 45613, 45599, 45589, 45587, 45569, 45557,
      45553, 45541, 45533, 45523, 45503, 45497, 45491, 45481, 45439, 45433,
      45427, 45413, 45403, 45389, 45377, 45361, 45343, 45341, 45337, 45329,
      45319, 45317, 45307, 45293, 45289, 45281, 45263, 45259, 45247, 45233,
      45197, 45191, 45181, 45179, 45161, 45139, 45137, 45131, 45127, 45121,
      45119, 45083, 45077, 45061, 45053, 45013, 45007, 44987, 44983, 44971,
      44963, 44959, 44953, 44939, 44927, 44917, 44909, 44893, 44887, 44879,
      44867, 44851, 44843, 44839, 44819, 44809, 44797, 44789, 44777, 44773,
      44771, 44753, 44741, 44729, 44711, 44701, 44699, 44687, 44683, 44657,
      44651, 44647, 44641, 44633, 44623, 44621, 44617, 44587, 44579, 44563,
      44549, 44543, 44537, 44533, 44531, 44519, 44507, 44501, 44497, 44491,
      44483, 44453, 44449, 44417, 44389, 44383, 44381, 44371, 44357, 44351,
      44293, 44281, 44279, 44273, 44269, 44267, 44263, 44257, 44249, 44221,
      44207, 44203, 44201, 44189, 44179, 44171, 44159, 44131, 44129, 44123,
      44119, 44111, 44101, 44089, 44087, 44071, 44059, 44053, 44041, 44029,
      44027, 44021, 44017, 43997, 43991, 43987, 43973, 43969, 43963, 43961,
      43951, 43943, 43933, 43913, 43891, 43889, 43867, 43853, 43801, 43793,
      43789, 43787, 43783, 43781, 43777, 43759, 43753, 43721, 43717, 43711>>

\* The longest frame add_indicators is applied to
MaxLen == 21

\* b^e modulo p by repeated squaring
RECURSIVE PowMod(_, _, _)
PowMod(b, e, p) ==
    IF e = 0 THEN 1
    ELSE LET h == PowMod(b, e \div 2, p)
         IN  IF e % 2 = 0 THEN (h * h) % p ELSE (((h * h) % p) * b) % p

\* The inverse of a nonzero residue modulo the prime p (Fermat)
InvMod(a, p) == PowMod(a, p - 2, p)

BigInt(n)    == [m \in 1..Len(PRIMES) |-> n % PRIMES[m]]
BigAdd(a, b) == [m \in 1..Len(a) |-> (a[m] + b[m]) % PRIMES[m]]
BigSub(a, b) == [m \in 1..Len(a) |-> (a[m] - b[m]) % PRIMES[m]]
BigMul(a, b) == [m \in 1..Len(a) |-> (a[m] * b[m]) % PRIMES[m]]
BigInv(a)    == [m \in 1..Len(a) |-> InvMod(a[m], PRIMES[m])]
BigDiv(a, b) == BigMul(a, BigInv(b))

\* The Big value of a small rational
BigRat(r) == IF r.d = 1 THEN BigInt(r.n) ELSE BigDiv(BigInt(r.n), BigInt(r.d))

---------------------------------------------------------------------------
(* str comparison: by code point, a proper prefix first *)

Chars(s) ==
    CASE s = "Apple"       -> <<65, 112, 112, 108, 101>>
      [] s = "Microsoft"   -> <<77, 105, 99, 114, 111, 115, 111, 102, 116>>
      [] s = "NVIDIA"      -> <<78, 86, 73, 68, 73, 65>>
      [] s = "Amazon"      -> <<65, 109, 97, 122, 111, 110>>
      [] s = "Google"      -> <<71, 111, 111, 103, 108, 101>>
      [] s = "Tesla"       -> <<84, 101, 115, 108, 97>>
      [] s = "Meta"        -> <<77, 101, 116, 97>>
      [] s = "Netflix"     -> <<78, 101, 116, 102, 108, 105, 120>>
      [] s = "Technology"  -> <<84, 101, 99, 104, 110, 111, 108, 111, 103, 121>>
      [] s = "Healthcare"  -> <<72, 101, 97, 108, 116, 104, 99, 97, 114, 101>>
      [] s = "Financials"  -> <<70, 105, 110, 97, 110, 99, 105, 97, 108, 115>>
      [] s = "Energy"      -> <<69, 110, 101, 114, 103, 121>>
      [] s = "Consumer"    -> <<67, 111, 110, 115, 117, 109, 101, 114>>
      [] s = "Industrials" -> <<73, 110, 100, 117, 115, 116, 114, 105, 97, 108, 115>>
      [] s = "Utilities"   -> <<85, 116, 105, 108, 105, 116, 105, 101, 115>>
      [] s = "Real Estate" -> <<82, 101, 97, 108, 32, 69, 115, 116, 97, 116, 101>>
      [] s = GREEN         -> <<35, 50, 99, 97, 48, 50, 99>>
      [] s = RED           -> <<35, 100, 54, 50, 55, 50, 56>>

RECURSIVE SeqLess(_, _)
SeqLess(a, b) ==
    IF b = <<>> THEN FALSE
    ELSE IF a = <<>> THEN TRUE
    ELSE IF Head(a) # Head(b) THEN Head(a) < Head(b)
    ELSE SeqLess(Tail(a), Tail(b))

StrLess(a, b) == SeqLess(Chars(a), Chars(b))

---------------------------------------------------------------------------
(* The data source's answer to one call: it raises, or returns the rows    *)
(* whose Close prices are close (volume, high and low are carried by no    *)
(* claim and are left out).                                                *)

Response(raises, close) == [raises |-> raises, close |-> close]

\* fetch_ticker: None when yf.download raises or returns an empty frame
fetch_ticker(resp) ==
    IF resp.raises THEN None
    ELSE IF resp.close = <<>> THEN None
    ELSE [tag |-> "df", close |-> resp.close]

\* fetch_quote taking the first row, not the row before the last, as the
\* previous close
fetch_quote_first_row(resp) ==
    IF resp.raises THEN None
    ELSE IF Len(resp.close) < 2 THEN None
    ELSE LET prev == resp.close[1]
             curr == resp.close[Len(resp.close)]
             chg  == curr - prev
         IN  IF prev = 0 THEN None
             ELSE [tag    |-> "quote",
                   price  |-> curr,
                   change |-> chg,
                   pct    |-> RatMul(Rat(chg, prev), RatInt(100))]

\* fetch_quote: None when anything raises (a zero previous close makes the
\* float division raise ZeroDivisionError, caught by the except clause)
fetch_quote(resp) ==
    IF resp.raises THEN None
    ELSE IF Len(resp.close) < 2 THEN None
    ELSE LET prev == resp.close[Len(resp.close) - 1]
             curr == resp.close[Len(resp.close)]
             chg  == curr - prev
         IN  IF prev = 0 THEN None
             ELSE [tag    |-> "quote",
                   price  |-> curr,
                   change |-> chg,
                   pct    |-> RatMul(Rat(chg, prev), RatInt(100))]

---------------------------------------------------------------------------
(* add_indicators.  A column is a sequence with one entry per row: a       *)
(* rational or Absent (NaN) in the rolling and RSI columns, a Big value in *)
(* EMA12, EMA26, MACD and Signal, which have a number in every row.  The   *)
(* input frame is [tag |-> "df", close |-> <<...>>].                       *)

MA_SHORT   == 20
MA_LONG    == 50
EMA_FAST   == 12
EMA_SLOW   == 26
EMA_SIGNAL == 9
RSI_WINDOW == 14
BB_WIDTH   == 2
EPSILON    == Rat(1, 1000000)

\* Series.squeeze(): a column of exactly one row collapses to a scalar
squeeze(col) ==
    IF Len(col) = 1 THEN [tag |-> "scalar", v |-> col[1]]
    ELSE [tag |-> "series", s |-> col]

AsFloat(col) == [k \in 1..Len(col) |-> RatInt(col[k])]

\* The exact sum of rows lo..hi, added pairwise by halves: exact addition is
\* associative, and the halving keeps the evaluation shallow
RECURSIVE SumRat(_, _, _)
SumRat(x, lo, hi) ==
    IF lo > hi THEN RatInt(0)
    ELSE IF lo = hi THEN x[lo]
    ELSE RatAdd(SumRat(x, lo, (lo + hi) \div 2),
                SumRat(x, (lo + hi) \div 2 + 1, hi))

\* A window is full when it has w rows and none of them is NaN
\* (min_periods defaults to the window size)
WindowFull(x, k, w) == k >= w /\ \A j \in (k - w + 1)..k : x[j] # Absent

\* Series.rolling(w).mean()
rolling_mean(x, w) ==
    [k \in 1..Len(x) |->
        IF WindowFull(x, k, w)
        THEN RatDiv(SumRat(x, k - w + 1, k), RatInt(w))
        ELSE Absent]

\* Series.rolling(w).std(): the sample standard deviation (ddof = 1), kept
\* as its square, the sample variance
rolling_var(x, w) ==
    [k \in 1..Len(x) |->
        IF WindowFull(x, k, w)
        THEN LET m  == RatDiv(SumRat(x, k - w + 1, k), RatInt(w))
                 sq == [j \in 1..Len(x) |->
                          IF j \in (k - w + 1)..k
                          THEN RatMul(RatSub(x[j], m), RatSub(x[j], m))
                          ELSE RatInt(0)]
             IN  RatDiv(SumRat(sq, k - w + 1, k), RatInt(w - 1))
        ELSE Absent]

\* mid + sign * BB_WIDTH * sqrt(var), kept symbolically
band(mid, var, sign) ==
    [k \in 1..Len(mid) |->
        IF mid[k] = Absent \/ var[k] = Absent THEN Absent
        ELSE [mid |-> mid[k], k |-> sign * BB_WIDTH, var |-> var[k]]]

EMA_SPANS == <<EMA_FAST, EMA_SLOW, EMA_SIGNAL>>
SpanIx(span) == CHOOSE c \in 1..Len(EMA_SPANS) : EMA_SPANS[c] = span

\* 1 - alpha = (span - 1) / (span + 1) and alpha = 2 / (span + 1), per span
DECAY ==
    [c \in 1..Len(EMA_SPANS) |->
        BigDiv(BigInt(EMA_SPANS[c] - 1), BigInt(EMA_SPANS[c] + 1))]
ALPHA == [c \in 1..Len(EMA_SPANS) |-> BigSub(BigInt(1), DECAY[c])]

\* 1 + r + ... + r^(k-1) modulo p: the sum of the weights of k samples
RECURSIVE WeightSum(_, _, _)
WeightSum(r, p, k) ==
    IF k = 0 THEN 0 ELSE (1 + r * WeightSum(r, p, k - 1)) % p

\* The inverses of the weight sums, tabulated for the rows a frame can have
WEIGHT_SUM_INV ==
    [c \in 1..Len(EMA_SPANS) |->
        [k \in 1..MaxLen |->
            [m \in 1..Len(PRIMES) |->
                InvMod(WeightSum(DECAY[c][m], PRIMES[m], k), PRIMES[m])]]]

\* <<S_1, ..., S_k>> modulo p, S_k = x_k + r x_(k-1) + ... + r^(k-1) x_1,
\* each from the one before: S_k = x_k + r * S_(k-1)
RECURSIVE EwmSums(_, _, _, _)
EwmSums(xs, r, p, k) ==
    IF k <= 1 THEN SubSeq(xs, 1, k)
    ELSE LET s == EwmSums(xs, r, p, k - 1)
         IN  Append(s, (xs[k] + r * s[k - 1]) % p)

\* The residues modulo PRIMES[m] of the rows of x.ewm(span).mean(): row k
\* is S_k / (1 + r + ... + r^(k-1))
ewm_mod(x, c, m) ==
    LET s == EwmSums([k \in 1..Len(x) |-> x[k][m]], DECAY[c][m], PRIMES[m],
                     Len(x))
    IN  [k \in 1..Len(s) |-> (s[k] * WEIGHT_SUM_INV[c][k][m]) % PRIMES[m]]

\* The unadjusted recursion (adjust=False) modulo p: y_1 = x_1,
\* y_k = alpha * x_k + (1 - alpha) * y_(k-1)
RECURSIVE ewm_recursive(_, _, _, _)
ewm_recursive(xs, a, p, k) ==
    IF k <= 1 THEN SubSeq(xs, 1, k)
    ELSE LET y == ewm_recursive(xs, a, p, k - 1)
         IN  Append(y, (((a * xs[k]) % p) + ((((1 - a) % p) * y[k - 1]) % p)) % p)

ewm_mean_unadjusted(x, span) ==
    LET byPrime == [m \in 1..Len(PRIMES) |->
                      ewm_recursive([k \in 1..Len(x) |-> x[k][m]],
                                    ALPHA[SpanIx(span)][m], PRIMES[m], Len(x))]
    IN  [k \in DOMAIN x |-> [m \in 1..Len(byPrime) |-> byPrime[m][k]]]

\* Series.ewm(span=span).mean(): pandas' defaults adjust=True and
\* min_periods=0, so every row k is defined and is the mean of rows 1..k
\* with weights (1 - alpha)^j on the row j back.  x is a column of Big
\* values; the rows are computed prime by prime.
ewm_mean(x, span) ==
    LET byPrime == [m \in 1..Len(PRIMES) |-> ewm_mod(x, SpanIx(span), m)]
    IN  [k \in DOMAIN x |-> [m \in 1..Len(byPrime) |-> byPrime[m][k]]]

\* A column of small rationals as a column of Big values
BigCol(x) == [k \in DOMAIN x |-> BigRat(x[k])]

col_sub(a, b) == [k \in DOMAIN a |-> BigSub(a[k], b[k])]

\* Series.diff(): NaN in the first row
diff(x) ==
    [k \in 1..Len(x) |-> IF k = 1 THEN Absent ELSE RatSub(x[k], x[k - 1])]

\* clip(lower=0) that clips nothing
clip_lower_off(x) == x

clip_lower(x) ==
    [k \in 1..Len(x) |->
        IF x[k] = Absent THEN Absent
        ELSE IF x[k].n < 0 THEN RatInt(0) ELSE x[k]]

clip_upper(x) ==
    [k \in 1..Len(x) |->
        IF x[k] = Absent THEN Absent
        ELSE IF x[k].n > 0 THEN RatInt(0) ELSE x[k]]

neg(x) ==
    [k \in 1..Len(x) |->
        IF x[k] = Absent THEN Absent ELSE RatSub(RatInt(0), x[k])]

\* gain and loss of line 105 and 106
rsi_gain(close) == rolling_mean(clip_lower(diff(close)), RSI_WINDOW)
rsi_loss(close) == rolling_mean(neg(clip_upper(diff(close))), RSI_WINDOW)

\* 100 - (100 / (1 + gain / (loss + 1e-6)))
rsi(gain, loss) ==
    [k \in 1..Len(gain) |->
        IF gain[k] = Absent \/ loss[k] = Absent THEN Absent
        ELSE RatSub(RatInt(100),
                    RatDiv(RatInt(100),
                           RatAdd(RatInt(1),
                                  RatDiv(gain[k], RatAdd(loss[k], EPSILON)))))]

\* add_indicators: the squeezed Close of a one-row frame is a scalar, which
\* has no rolling(): the first indicator line raises AttributeError
add_indicators(df) ==
    LET sq == squeeze(df.close) IN
    IF sq.tag = "scalar" THEN [tag |-> "raised", err |-> "AttributeError"]
    ELSE LET close == AsFloat(sq.s)
             ema12 == ewm_mean(BigCol(close), EMA_FAST)
             ema26 == ewm_mean(BigCol(close), EMA_SLOW)
             macd  == col_sub(ema12, ema26)
             mid   == rolling_mean(close, MA_SHORT)
             var   == rolling_var(close, MA_SHORT)
         IN  [tag    |-> "ind",
              Close  |-> close,
              MA20   |-> rolling_mean(close, MA_SHORT),
              MA50   |-> rolling_mean(close, MA_LONG),
              EMA12  |-> ema12,
              EMA26  |-> ema26,
              MACD   |-> macd,
              Signal |-> ewm_mean(macd, EMA_SIGNAL),
              BB_mid |-> mid,
              BB_var |-> var,
              BB_up  |-> band(mid, var, 1),
              BB_lo  |-> band(mid, var, -1),
              RSI    |-> rsi(rsi_gain(close), rsi_loss(close))]

---------------------------------------------------------------------------
(* The ranked bar charts of build_dashboard.  A dict is a sequence of      *)
(* [k, v] entries in insertion order.                                      *)

sign_color(v) == IF v.n >= 0 THEN GREEN ELSE RED

\* zip(values, names, colors)
zip3(d) ==
    [k \in 1..Len(d) |->
        [v |-> d[k].v, name |-> d[k].k, color |-> sign_color(d[k].v)]]

\* An order on the value alone, as sorted(..., key=value) would use
tuple_less_by_value(a, b) == RatLess(a.v, b.v)

\* Python's tuple order: the first component that differs decides
tuple_less(a, b) ==
    IF a.v # b.v THEN RatLess(a.v, b.v)
    ELSE IF a.name # b.name THEN StrLess(a.name, b.name)
    ELSE StrLess(a.color, b.color)

RECURSIVE insert_sorted(_, _)
insert_sorted(t, s) ==
    IF s = <<>> THEN <<t>>
    ELSE IF tuple_less(t, Head(s)) THEN <<t>> \o s
    ELSE <<Head(s)>> \o insert_sorted(t, Tail(s))

\* sorted(...): stable, ascending
RECURSIVE sorted(_)
sorted(s) ==
    IF s = <<>> THEN <<>>
    ELSE insert_sorted(s[Len(s)], sorted(SubSeq(s, 1, Len(s) - 1)))

\* sorted(zip(values, names, colors)) and the unpacking of zip(*sorted_pairs),
\* which raises ValueError on an empty list
ranked_bars(d) ==
    IF d = <<>> THEN [tag |-> "raised", err |-> "ValueError"]
    ELSE [tag |-> "bars", bars |-> sorted(zip3(d))]

\* The ranking without its guard
bar_chart_unguarded(d) == ranked_bars(d)

\* if sector_perf: ... / if winners: ...
bar_chart(d) ==
    IF d = <<>> THEN [tag |-> "blank"] ELSE ranked_bars(d)

\* winners = {k: v for k, v in quotes.items() if v is not None}
IsSome(e) == e.v # None
winners_of(q) == SelectSeq(q, IsSome)

\* pcts = [winners[n]["pct"] for n in names]
pct_dict(w) == [k \in 1..Len(w) |-> [k |-> w[k].k, v |-> w[k].v.pct]]

---------------------------------------------------------------------------
(* The grid and its subplots *)

\* gs[row, lo:hi]: the cells of one row from column lo up to hi - 1
gs(row, lo, hi) == { <<row, c>> : c \in lo..(hi - 1) }

\* fig.add_subplot: an empty pair of axes
add_subplot(slot, n, kind, cells) ==
    [slot |-> slot, n |-> n, kind |-> kind, cells |-> cells,
     drawn |-> FALSE, text |-> "", color |-> "", bars |-> <<>>]

\* plot_scorecard returning on a missing quote before writing "N/A"
plot_scorecard_silent(ax, name, quote) ==
    IF quote = None THEN ax
    ELSE [ax EXCEPT !.drawn = TRUE,
                    !.text  = name,
                    !.color = IF quote.change >= 0 THEN GREEN ELSE RED]

\* plot_scorecard: "N/A" for a missing quote, else the price card
plot_scorecard(ax, name, quote) ==
    IF quote = None THEN [ax EXCEPT !.text = "N/A"]
    ELSE [ax EXCEPT !.drawn = TRUE,
                    !.text  = name,
                    !.color = IF quote.change >= 0 THEN GREEN ELSE RED]

\* dict.get(name)
dict_get(d, name) ==
    IF \E k \in 1..Len(d) : d[k].k = name
    THEN d[CHOOSE k \in 1..Len(d) : d[k].k = name].v
    ELSE None

plot_lines(ax, color) == [ax EXCEPT !.drawn = TRUE, !.color = color]

plot_bars(ax, chart) ==
    IF chart.tag = "bars" THEN [ax EXCEPT !.drawn = TRUE, !.bars = chart.bars]
    ELSE ax

\* color = GREEN if float(close.iloc[-1]) >= float(close.iloc[0]) else RED
trend_color(ind) ==
    IF RatLeq(ind.Close[1], ind.Close[Len(ind.Close)]) THEN GREEN ELSE RED

---------------------------------------------------------------------------
(* Values of the variables a specification does not use *)

Idle ==
    /\ i = 0 /\ quotes = <<>> /\ idx_quotes = <<>> /\ hist = <<>>
    /\ sector_perf = <<>> /\ panels = <<>> /\ regime = "none"
    /\ deviations = 0

IdleUnchanged ==
    UNCHANGED <<i, quotes, idx_quotes, hist, sector_perf, panels, regime,
                deviations>>

---------------------------------------------------------------------------
(* add_indicators applied to one frame.  The Close series start at        *)
(* BasePrice and move by a repeating cycle of CycleLen daily changes, each *)
(* -1, 0 or +1; their length runs from 0 to MaxLen rows.                   *)

CycleLen  == 3
BasePrice == 100

RECURSIVE CloseAt(_, _)
CloseAt(cycle, k) ==
    IF k = 1 THEN BasePrice
    ELSE CloseAt(cycle, k - 1) + cycle[((k - 2) % CycleLen) + 1]

SeriesOf(n, cycle) == [k \in 1..n |-> CloseAt(cycle, k)]

IndFrames ==
    { [tag |-> "df", close |-> SeriesOf(n, cycle)] :
        n \in 0..MaxLen, cycle \in [1..CycleLen -> {-1, 0, 1}] }

InitInd ==
    /\ pc = "call" /\ arg \in IndFrames /\ ret = None /\ err = "" /\ Idle

AddIndicators ==
    /\ pc = "call"
    /\ ret' = add_indicators(arg)
    /\ pc'  = IF ret'.tag = "raised" THEN "raised" ELSE "return"
    /\ err' = IF ret'.tag = "raised" THEN ret'.err ELSE ""
    /\ UNCHANGED arg
    /\ IdleUnchanged

SpecInd == InitInd /\ [][AddIndicators]_vars

---------------------------------------------------------------------------
(* build_dashboard.  The data source is the environment: in one run it is  *)
(* either answering ("up") or out of service ("outage"), and at most       *)
(* MaxDeviations of its answers differ from what that regime gives.        *)

MaxDeviations == 2

Raises    == Response(TRUE, <<>>)
Empty     == Response(FALSE, <<>>)
OneRow    == Response(FALSE, <<100>>)
Rising    == Response(FALSE, <<100, 110>>)
Falling   == Response(FALSE, <<100, 90>>)
ZeroFirst == Response(FALSE, <<0, 5>>)

QuoteResponses  == {Raises, Rising, Falling}
TickerResponses == {Raises, Empty, OneRow, Rising, Falling, ZeroFirst}

Default == IF regime = "up" THEN Rising ELSE Raises

\* The source may give resp now
Answers(resp) == resp = Default \/ deviations < MaxDeviations

Counted(resp) == IF resp = Default THEN deviations ELSE deviations + 1

Init ==
    /\ pc = "quotes" /\ i = 1
    /\ quotes = <<>> /\ idx_quotes = <<>> /\ hist = <<>> /\ sector_perf = <<>>
    /\ panels = <<>> /\ err = ""
    /\ regime \in {"up", "outage"} /\ deviations = 0
    /\ arg = None /\ ret = None

\* for name, ticker in WATCHLIST.items(): quotes[name] = fetch_quote(ticker)
FetchWatchQuote ==
    /\ pc = "quotes"
    /\ \E resp \in QuoteResponses :
         /\ Answers(resp)
         /\ deviations' = Counted(resp)
         /\ quotes' = Append(quotes, [k |-> WATCHLIST[i], v |-> fetch_quote(resp)])
    /\ IF i = Len(WATCHLIST) THEN pc' = "indices" /\ i' = 1
                             ELSE pc' = pc /\ i' = i + 1
    /\ UNCHANGED <<idx_quotes, hist, sector_perf, panels, err, regime, arg, ret>>

\* for name, ticker in INDICES.items(): idx_quotes[name] = fetch_quote(ticker)
FetchIndexQuote ==
    /\ pc = "indices"
    /\ \E resp \in QuoteResponses :
         /\ Answers(resp)
         /\ deviations' = Counted(resp)
         /\ idx_quotes' = Append(idx_quotes,
                                 [k |-> INDICES[i], v |-> fetch_quote(resp)])
    /\ IF i = Len(INDICES) THEN pc' = "hist" /\ i' = 1
                           ELSE pc' = pc /\ i' = i + 1
    /\ UNCHANGED <<quotes, hist, sector_perf, panels, err, regime, arg, ret>>

\* spy_hist, aapl_hist, tsla_hist, nvda_hist = fetch_ticker(...)
FetchHist ==
    /\ pc = "hist"
    /\ \E resp \in TickerResponses :
         /\ Answers(resp)
         /\ deviations' = Counted(resp)
         /\ hist' = Append(hist, fetch_ticker(resp))
    /\ IF i = Len(HISTS) THEN pc' = "sectors" /\ i' = 1
                         ELSE pc' = pc /\ i' = i + 1
    /\ UNCHANGED <<quotes, idx_quotes, sector_perf, panels, err, regime, arg, ret>>

\* (end_p - start_p) / start_p * 100 on Python floats: a zero start_p
\* raises ZeroDivisionError
sector_change(df) ==
    LET start_p == df.close[1]
        end_p   == df.close[Len(df.close)]
    IN  IF start_p = 0 THEN [tag |-> "raised", err |-> "ZeroDivisionError"]
        ELSE [tag |-> "value",
              v   |-> RatMul(Rat(end_p - start_p, start_p), RatInt(100))]

\* One iteration of: for name, ticker in SECTORS.items()
FetchSector ==
    /\ pc = "sectors"
    /\ \E resp \in TickerResponses :
         /\ Answers(resp)
         /\ deviations' = Counted(resp)
         /\ LET df == fetch_ticker(resp) IN
            IF df # None /\ Len(df.close) > 1
            THEN LET r == sector_change(df) IN
                 IF r.tag = "raised"
                 THEN /\ pc' = "raised" /\ err' = r.err
                      /\ UNCHANGED <<sector_perf, i>>
                 ELSE /\ sector_perf' = Append(sector_perf,
                                               [k |-> SECTORS[i], v |-> r.v])
                      /\ err' = err
                      /\ IF i = Len(SECTORS) THEN pc' = "spy" /\ i' = 1
                                             ELSE pc' = pc /\ i' = i + 1
            ELSE /\ UNCHANGED <<sector_perf, err>>
                 /\ IF i = Len(SECTORS) THEN pc' = "spy" /\ i' = 1
                                        ELSE pc' = pc /\ i' = i + 1
    /\ UNCHANGED <<quotes, idx_quotes, hist, panels, regime, arg, ret>>

\* The frames fetch_ticker can hand to build_dashboard
HistFrames == {fetch_ticker(resp) : resp \in TickerResponses} \ {None}

\* add_indicators(hist) for each of them: add_indicators depends on its frame
\* only, so its value is computed once per frame and looked up in the steps
indicators_of == [h \in HistFrames |-> add_indicators(h)]

\* Every panel step leaves the fetched data and the data source alone
PanelFrame ==
    UNCHANGED <<quotes, idx_quotes, hist, sector_perf, regime, deviations,
                arg, ret>>

\* ax_sp, ax_rsi, ax_macd and, if spy_hist is not None, their three charts
SpyPanels ==
    /\ pc = "spy"
    /\ LET ax_sp   == add_subplot("ax_sp",   0, "timeseries", gs(0, 0, 3))
           ax_rsi  == add_subplot("ax_rsi",  0, "timeseries", gs(1, 0, 3))
           ax_macd == add_subplot("ax_macd", 0, "timeseries", gs(2, 0, 3))
           spy_hist == hist[1]
       IN  IF spy_hist = None
           THEN /\ panels' = panels \o <<ax_sp, ax_rsi, ax_macd>>
                /\ pc' = "index_cards" /\ err' = err
           ELSE LET spy == indicators_of[spy_hist] IN
                IF spy.tag = "raised"
                THEN /\ panels' = panels \o <<ax_sp, ax_rsi, ax_macd>>
                     /\ pc' = "raised" /\ err' = spy.err
                ELSE /\ panels' = panels \o <<plot_lines(ax_sp, ""),
                                              plot_lines(ax_rsi, ""),
                                              plot_lines(ax_macd, "")>>
                     /\ pc' = "index_cards" /\ err' = err
    /\ UNCHANGED i
    /\ PanelFrame

\* for i, (name, ticker) in enumerate(INDICES.items()): gs[0, 3 + i]
IndexScorecards ==
    /\ pc = "index_cards"
    /\ panels' = panels \o
         [k \in 1..Len(INDICES) |->
            plot_scorecard(
                add_subplot("index", k, "scorecard", gs(0, 3 + (k - 1), 3 + k)),
                INDICES[k], dict_get(idx_quotes, INDICES[k]))]
    /\ pc' = "watch_cards"
    /\ UNCHANGED <<i, err>>
    /\ PanelFrame

\* stock_names[:4] on row 1 and stock_names[4:] on row 2, from column 4
WatchScorecards ==
    /\ pc = "watch_cards"
    /\ panels' = panels \o
         [k \in 1..Len(WATCHLIST) |->
            LET row == IF k <= 4 THEN 1 ELSE 2
                e   == IF k <= 4 THEN k - 1 ELSE k - 5
            IN  plot_scorecard(
                    add_subplot("watch", k, "scorecard", gs(row, 4 + e, 4 + e + 1)),
                    WATCHLIST[k], dict_get(quotes, WATCHLIST[k]))]
    /\ pc' = "sector_chart"
    /\ UNCHANGED <<i, err>>
    /\ PanelFrame

\* ax_sector = fig.add_subplot(gs[3, :4]); if sector_perf: ...
SectorChart ==
    /\ pc = "sector_chart"
    /\ panels' = Append(panels,
                        plot_bars(add_subplot("ax_sector", 0, "bars", gs(3, 0, 4)),
                                  bar_chart(sector_perf)))
    /\ pc' = "stock_charts" /\ i' = 1
    /\ UNCHANGED err
    /\ PanelFrame

\* One iteration of: for idx2, (ticker, hist) in enumerate(stock_pairs[:2])
StockChart ==
    /\ pc = "stock_charts"
    /\ LET idx2 == i - 1
           ax   == add_subplot("stock", i, "timeseries",
                               gs(3, 4 + idx2 * 2, 4 + idx2 * 2 + 2))
           h    == hist[i + 1]
       IN  IF h = None
           THEN /\ panels' = Append(panels, ax)
                /\ err' = err
                /\ IF i = 2 THEN pc' = "nvda" /\ i' = 1
                            ELSE pc' = pc /\ i' = i + 1
           ELSE LET df2 == indicators_of[h] IN
                IF df2.tag = "raised"
                THEN /\ panels' = Append(panels, ax)
                     /\ pc' = "raised" /\ err' = df2.err
                     /\ UNCHANGED i
                ELSE /\ panels' = Append(panels, plot_lines(ax, trend_color(df2)))
                     /\ err' = err
                     /\ IF i = 2 THEN pc' = "nvda" /\ i' = 1
                                 ELSE pc' = pc /\ i' = i + 1
    /\ PanelFrame

\* ax_nvda = fig.add_subplot(gs[4, :4]); if nvda_hist is not None: ...
NvdaChart ==
    /\ pc = "nvda"
    /\ LET ax_nvda   == add_subplot("ax_nvda", 0, "timeseries", gs(4, 0, 4))
           nvda_hist == hist[4]
       IN  IF nvda_hist = None
           THEN /\ panels' = Append(panels, ax_nvda)
                /\ pc' = "vol" /\ err' = err
           ELSE LET df2 == indicators_of[nvda_hist] IN
                IF df2.tag = "raised"
                THEN /\ panels' = Append(panels, ax_nvda)
                     /\ pc' = "raised" /\ err' = df2.err
                ELSE /\ panels' = Append(panels,
                                         plot_lines(ax_nvda, trend_color(df2)))
                     /\ pc' = "vol" /\ err' = err
    /\ UNCHANGED i
    /\ PanelFrame

\* ax_vol = fig.add_subplot(gs[4, 4:]); winners; if winners: ...
VolChart ==
    /\ pc = "vol"
    /\ panels' = Append(panels,
                        plot_bars(add_subplot("ax_vol", 0, "bars",
                                              gs(4, 4, GridCols)),
                                  bar_chart(pct_dict(winners_of(quotes)))))
    /\ pc' = "save"
    /\ UNCHANGED <<i, err>>
    /\ PanelFrame

\* plt.savefig("stock_dashboard.png", ...)
SaveFig ==
    /\ pc = "save"
    /\ pc' = "done"
    /\ UNCHANGED <<i, panels, err>>
    /\ PanelFrame

Next ==
    \/ FetchWatchQuote
    \/ FetchIndexQuote
    \/ FetchHist
    \/ FetchSector
    \/ SpyPanels
    \/ IndexScorecards
    \/ WatchScorecards
    \/ SectorChart
    \/ StockChart
    \/ NvdaChart
    \/ VolChart
    \/ SaveFig

Spec == Init /\ [][Next]_vars

---------------------------------------------------------------------------
(* Claims about build_dashboard, checked under Spec *)

Terminated == pc \in {"done", "raised"}

\* The 20 slots in the order build_dashboard creates them
Catalog ==
    <<[slot |-> "ax_sp", n |-> 0], [slot |-> "ax_rsi", n |-> 0],
      [slot |-> "ax_macd", n |-> 0]>>
    \o [k \in 1..Len(INDICES) |-> [slot |-> "index", n |-> k]]
    \o [k \in 1..Len(WATCHLIST) |-> [slot |-> "watch", n |-> k]]
    \o <<[slot |-> "ax_sector", n |-> 0], [slot |-> "stock", n |-> 1],
         [slot |-> "stock", n |-> 2], [slot |-> "ax_nvda", n |-> 0],
         [slot |-> "ax_vol", n |-> 0]>>

SlotOf(p) == [slot |-> p.slot, n |-> p.n]

\* Whether the data a panel depends on is missing
DependencyAbsent(p) ==
    CASE p.slot \in {"ax_sp", "ax_rsi", "ax_macd"} -> hist[1] = None
      [] p.slot = "index"     -> dict_get(idx_quotes, INDICES[p.n]) = None
      [] p.slot = "watch"     -> dict_get(quotes, WATCHLIST[p.n]) = None
      [] p.slot = "ax_sector" -> sector_perf = <<>>
      [] p.slot = "stock"     -> hist[p.n + 1] = None
      [] p.slot = "ax_nvda"   -> hist[4] = None
      [] p.slot = "ax_vol"    -> winners_of(quotes) = <<>>

NoOverlap ==
    \A a, b \in 1..Len(panels) :
        a # b => panels[a].cells \cap panels[b].cells = {}

InGrid ==
    \A a \in 1..Len(panels) :
        panels[a].cells \subseteq (0..(GridRows - 1)) \X (0..(GridCols - 1))

OnePanelPerSlot ==
    /\ Len(panels) = Len(Catalog)
    /\ \A k \in 1..Len(Catalog) : SlotOf(panels[k]) = Catalog[k]

\* C1: whatever the fetches return, a run of build_dashboard ends with
\* exactly one panel for each of the 20 slots, no two sharing a grid cell.
C1_EverySlotOnce ==
    Terminated => OnePanelPerSlot /\ NoOverlap /\ InGrid

\* The layout itself: a run that reaches the render step has filled the
\* 20 slots once each, without overlap.
LayoutWhenRendered ==
    pc \in {"save", "done"} => OnePanelPerSlot /\ NoOverlap /\ InGrid

\* C2 as stated: in the rendered report every slot whose dependency is
\* absent is emitted and carries the explicit "N/A" hint, whatever its kind.
C2_EveryAbsentSlotHinted ==
    pc = "done" =>
        \A k \in 1..Len(Catalog) :
            /\ k <= Len(panels)
            /\ DependencyAbsent(panels[k]) => panels[k].text = "N/A"

\* C2 amended: every slot is created, in catalog order, whether or not its
\* data is present (all 20 once the render step is reached); a slot whose
\* dependency is absent is left undrawn, a scorecard with the "N/A" hint,
\* a time-series or bar chart as empty axes with no hint at all.
C2_AbsentSlotsEmitted ==
    /\ Len(panels) <= Len(Catalog)
    /\ pc \in {"save", "done"} => Len(panels) = Len(Catalog)
    /\ \A k \in 1..Len(panels) :
        /\ SlotOf(panels[k]) = Catalog[k]
        /\ DependencyAbsent(panels[k]) =>
            /\ ~panels[k].drawn
            /\ panels[k].text = IF panels[k].kind = "scorecard" THEN "N/A" ELSE ""

\* A rendered report with a missing scorecard and three kinds of empty chart
C2_Witness ==
    /\ pc = "done"
    /\ hist[1] = None /\ sector_perf = <<>>
    /\ \E k \in 1..Len(panels) :
        panels[k].kind = "scorecard" /\ panels[k].text = "N/A"
    /\ \E k \in 1..Len(panels) :
        panels[k].kind = "scorecard" /\ panels[k].drawn

\* C3: no exception escapes build_dashboard: whatever subset of fetches
\* fails, the run gets to plt.savefig.
C3_NoExceptionEscapes == pc # "raised"

\* C10: the sector loop never aborts the run: a sector series of two or
\* more bars either gets a value or is left out, a zero first close included.
C10_SectorLoopContinues == err # "ZeroDivisionError"

---------------------------------------------------------------------------
(* fetch_quote applied to one answer of the data source: it raises, or     *)
(* returns up to MaxQuoteRows rows with Close prices from QuotePrices.     *)

MaxQuoteRows == 3
QuotePrices  == {0, 30, 100, 120}

RECURSIVE SeqsUpTo(_, _)
SeqsUpTo(S, n) ==
    IF n = 0 THEN {<<>>}
    ELSE LET shorter == SeqsUpTo(S, n - 1)
         IN  shorter \cup { Append(q, x) : q \in shorter, x \in S }

QuoteArgs ==
    {Raises} \cup { Response(FALSE, c) : c \in SeqsUpTo(QuotePrices, MaxQuoteRows) }

InitQuote ==
    /\ pc = "call" /\ arg \in QuoteArgs /\ ret = None /\ err = "" /\ Idle

FetchQuote ==
    /\ pc = "call"
    /\ ret' = fetch_quote(arg)
    /\ pc' = "return"
    /\ UNCHANGED <<arg, err>>
    /\ IdleUnchanged

SpecQuote == InitQuote /\ [][FetchQuote]_vars

PrevClose(resp) == resp.close[Len(resp.close) - 1]
LastClose(resp) == resp.close[Len(resp.close)]

\* ret is the snapshot of the last two closes of resp
IsSnapshotOf(q, resp) ==
    /\ q # None
    /\ q.price  = LastClose(resp)
    /\ q.change = LastClose(resp) - PrevClose(resp)
    /\ q.pct.n * PrevClose(resp) = q.change * 100 * q.pct.d

\* C6 as stated: None exactly when the source fails or gives fewer than
\* two rows, in every other case the snapshot (change = last - previous,
\* pct = change / previous * 100, price = last).
C6_SnapshotUnlessShort ==
    pc = "return" =>
        IF arg.raises \/ Len(arg.close) < 2 THEN ret = None
        ELSE IsSnapshotOf(ret, arg)

\* C6 amended: None also when the previous close is zero (the division
\* raises and the except clause answers None); the snapshot otherwise.
C6_SnapshotUnlessShortOrZero ==
    pc = "return" =>
        IF arg.raises \/ Len(arg.close) < 2 THEN ret = None
        ELSE IF PrevClose(arg) = 0 THEN ret = None
        ELSE IsSnapshotOf(ret, arg)

\* A snapshot of a falling price, taken from the last two of three rows
C6_Witness ==
    /\ pc = "return" /\ ret # None
    /\ Len(arg.close) = 3 /\ arg.close[1] # arg.close[2]
    /\ ret.change < 0 /\ ret.pct.d # 1

---------------------------------------------------------------------------
(* The ranking of one bar chart applied to one dict: the watchlist quotes  *)
(* (None or a quote that moved by -1, 0 or +1 percent) or sector_perf      *)
(* (the sectors that got a value, each -1, 0 or +1 percent).               *)

RankMoves == <<-1, 0, 1>>

QuoteMoved(m)  == fetch_quote(Response(FALSE, <<100, 100 + m>>))
SectorMoved(m) == sector_change([tag |-> "df", close |-> <<100, 100 + m>>]).v

\* f[k] = 0: member k has no value; otherwise it moved by RankMoves[f[k]]
RankArg(group, f) ==
    IF group = "watchlist"
    THEN [group |-> group,
          d |-> [k \in 1..Len(WATCHLIST) |->
                   [k |-> WATCHLIST[k],
                    v |-> IF f[k] = 0 THEN None
                          ELSE QuoteMoved(RankMoves[f[k]])]]]
    ELSE [group |-> group,
          d |-> SelectSeq([k \in 1..Len(SECTORS) |->
                             [k |-> SECTORS[k],
                              v |-> IF f[k] = 0 THEN None
                                    ELSE SectorMoved(RankMoves[f[k]])]],
                          IsSome)]

InitRank ==
    /\ pc = "call" /\ ret = None /\ err = "" /\ Idle
    /\ \E group \in {"watchlist", "sectors"} :
       \E f \in [1..Len(WATCHLIST) -> 0..Len(RankMoves)] :
           arg = RankArg(group, f)

\* The dict the chart ranks: winners' pct for the watchlist, sector_perf
RankedDict(a) ==
    IF a.group = "watchlist" THEN pct_dict(winners_of(a.d)) ELSE a.d

RankBars ==
    /\ pc = "call"
    /\ ret' = bar_chart(RankedDict(arg))
    /\ pc' = "return"
    /\ UNCHANGED <<arg, err>>
    /\ IdleUnchanged

SpecRank == InitRank /\ [][RankBars]_vars

\* Position of the member called name in a sequence of entries
PosIn(seq, name, field) ==
    CHOOSE k \in 1..Len(seq) : seq[k][field] = name

\* C4 as stated: the ranking is stable: two members with equal values keep
\* their relative order of insertion, whatever their labels.
C4_TiesKeepInsertionOrder ==
    (pc = "return" /\ ret.tag = "bars") =>
        LET d == RankedDict(arg) IN
        \A a, b \in 1..Len(d) :
            (a < b /\ d[a].v = d[b].v) =>
                PosIn(ret.bars, d[a].k, "name") < PosIn(ret.bars, d[b].k, "name")

\* C4 amended: the ranking is ascending by value and not stable: members
\* with equal values appear in ascending label order (code point order),
\* whatever their order of insertion.
C4_TiesByLabel ==
    (pc = "return" /\ ret.tag = "bars") =>
        \A x, y \in 1..Len(ret.bars) :
            x < y =>
                /\ RatLeq(ret.bars[x].v, ret.bars[y].v)
                /\ ret.bars[x].v = ret.bars[y].v =>
                       StrLess(ret.bars[x].name, ret.bars[y].name)

\* Two members tie and the ranking puts the later-inserted one first
C4_Witness ==
    /\ pc = "return" /\ ret.tag = "bars"
    /\ LET d == RankedDict(arg) IN
       \E x, y \in 1..Len(ret.bars) :
           /\ x < y /\ ret.bars[x].v = ret.bars[y].v
           /\ PosIn(d, ret.bars[x].name, "k") > PosIn(d, ret.bars[y].name, "k")

\* C5: the watchlist ranking holds exactly the members with a quote, in
\* ascending order of percent change, each with its own value and the
\* colour of that value's sign; with no quote at all nothing is ranked
\* and nothing raises.
C5_WatchlistRanking ==
    (pc = "return" /\ arg.group = "watchlist") =>
        LET have == { k \in 1..Len(arg.d) : arg.d[k].v # None } IN
        IF have = {} THEN ret.tag = "blank"
        ELSE /\ ret.tag = "bars"
             /\ Len(ret.bars) = Cardinality(have)
             /\ \A k \in have :
                  \E x \in 1..Len(ret.bars) :
                      /\ ret.bars[x].name  = arg.d[k].k
                      /\ ret.bars[x].v     = arg.d[k].v.pct
                      /\ ret.bars[x].color =
                            IF arg.d[k].v.pct.n >= 0 THEN GREEN ELSE RED
             /\ \A x, y \in 1..Len(ret.bars) :
                  x < y => RatLeq(ret.bars[x].v, ret.bars[y].v)

\* A ranking of some but not all members, with both colours in it
C5_Witness ==
    /\ pc = "return" /\ arg.group = "watchlist" /\ ret.tag = "bars"
    /\ Len(ret.bars) < Len(arg.d)
    /\ ret.bars[1].color = RED
    /\ ret.bars[Len(ret.bars)].color = GREEN

---------------------------------------------------------------------------
(* Claims about add_indicators, checked under SpecInd *)

Rows == Len(arg.close)

RECURSIVE SumInts(_, _, _)
SumInts(x, lo, hi) == IF lo > hi THEN 0 ELSE x[hi] + SumInts(x, lo, hi - 1)

\* The arithmetic mean of rows k - 19 .. k of the Close column
MeanOfLast20(k) == Rat(SumInts(arg.close, k - MA_SHORT + 1, k), MA_SHORT)

WindowColumns(r) == <<r.MA20, r.BB_mid, r.BB_up, r.BB_lo>>

\* C7: add_indicators fails on no series; MA20 and the Bollinger columns
\* are absent in rows 0..18 (every row of a series shorter than 20) and
\* defined from row 19 on, MA20 being the mean of the 20 closes up to it.
C7_RollingWindows ==
    pc # "call" =>
        /\ pc = "return"
        /\ \A c \in 1..4 : \A k \in 1..Rows :
              IF k < MA_SHORT THEN WindowColumns(ret)[c][k] = Absent
              ELSE WindowColumns(ret)[c][k] # Absent
        /\ \A k \in MA_SHORT..Rows : ret.MA20[k] = MeanOfLast20(k)

\* The same rule for the frames add_indicators does not fail on: every
\* length but one row.
RollingWindowsExceptOneRow ==
    pc # "call" =>
        IF Rows = 1 THEN pc = "raised"
        ELSE /\ pc = "return"
             /\ \A c \in 1..4 : \A k \in 1..Rows :
                   IF k < MA_SHORT THEN WindowColumns(ret)[c][k] = Absent
                   ELSE WindowColumns(ret)[c][k] # Absent
             /\ \A k \in MA_SHORT..Rows : ret.MA20[k] = MeanOfLast20(k)

\* C8: every RSI value add_indicators produces lies in [0, 100], also when
\* the average loss is exactly zero.
C8_RsiInRange ==
    pc = "return" =>
        \A k \in 1..Rows :
            ret.RSI[k] # Absent =>
                /\ RatLeq(RatInt(0), ret.RSI[k])
                /\ RatLeq(ret.RSI[k], RatInt(100))

\* An RSI value over 14 changes none of which is a loss, and one in a
\* series with gains and losses
C8_Witness ==
    /\ pc = "return"
    /\ \E k \in 1..Rows :
        /\ ret.RSI[k] # Absent
        /\ rsi_loss(ret.Close)[k] = RatInt(0)
        /\ rsi_gain(ret.Close)[k].n > 0
        /\ RatLess(RatInt(99), ret.RSI[k])

\* The EMA columns with the column each one smooths and its span
EmaColumns(r) ==
    <<[y |-> r.EMA12,  x |-> BigCol(r.Close), span |-> EMA_FAST],
      [y |-> r.EMA26,  x |-> BigCol(r.Close), span |-> EMA_SLOW],
      [y |-> r.Signal, x |-> r.MACD,          span |-> EMA_SIGNAL]>>

\* The column has a number in every row of the frame
DefinedFromFirstRow(y) ==
    /\ Len(y) = Rows
    /\ \A k \in 1..Rows : DOMAIN y[k] = 1..Len(PRIMES)

\* alpha = 2 / (span + 1)
Alpha(span) == BigDiv(BigInt(2), BigInt(span + 1))

\* a_k = alpha / (1 - (1 - alpha)^k), the weight of the newest of k samples,
\* from the closed form and tabulated per span and row
ADJUSTED_ALPHA ==
    [c \in 1..Len(EMA_SPANS) |->
        [k \in 1..MaxLen |->
            [m \in 1..Len(PRIMES) |->
                LET p == PRIMES[m]
                    a == (2 * InvMod(EMA_SPANS[c] + 1, p)) % p
                IN  (a * InvMod((1 - PowMod((1 - a) % p, k, p)) % p, p)) % p]]]
AdjustedAlpha(span, k) == ADJUSTED_ALPHA[SpanIx(span)][k]

Smoothed(a, x, prev) ==
    BigAdd(BigMul(a, x), BigMul(BigSub(BigInt(1), a), prev))

\* C9 as stated: EMA[0] = x[0] and EMA[i] = alpha * x[i] + (1 - alpha) *
\* EMA[i-1] with alpha = 2 / (span + 1), defined from the first sample on.
C9_StandardRecursion ==
    pc = "return" =>
        \A c \in 1..3 :
            LET e == EmaColumns(ret)[c]
                a == Alpha(e.span)
            IN  /\ DefinedFromFirstRow(e.y)
                /\ \A k \in 1..Rows :
                      e.y[k] = IF k = 1 THEN e.x[1]
                               ELSE Smoothed(a, e.x[k], e.y[k - 1])

\* C9 amended: the columns are defined from the first sample on with
\* EMA[0] = x[0], and EMA[i] = a_i * x[i] + (1 - a_i) * EMA[i-1] where the
\* factor is not the constant alpha but a_i = alpha / (1 - (1 - alpha)^(i+1))
\* (pandas' default adjust=True), which only tends to alpha as i grows.
\* Checked in every row of every frame, for the three columns.
C9_AdjustedRecursion ==
    pc = "return" =>
        \A c \in 1..3 :
            LET e == EmaColumns(ret)[c]
            IN  /\ DefinedFromFirstRow(e.y)
                /\ \A k \in 1..Rows :
                      e.y[k] = IF k = 1 THEN e.x[1]
                               ELSE Smoothed(AdjustedAlpha(e.span, k),
                                             e.x[k], e.y[k - 1])

\* A frame of MA_SHORT rows or more in whose last row each of the three
\* columns moves, by a factor that differs from the factor of the second
\* row and from alpha; its second closes differ, so that EMA12 there is
\* (13 * c2 + 11 * c1) / 24.
C9_Witness ==
    /\ pc = "return" /\ Rows >= MA_SHORT
    /\ ret.Close[2] # ret.Close[1]
    /\ ret.EMA12[2] = BigRat(Rat(13 * ret.Close[2].n + 11 * ret.Close[1].n, 24))
    /\ \A c \in 1..3 :
          LET e == EmaColumns(ret)[c]
          IN  /\ e.x[Rows] # e.y[Rows - 1]
              /\ e.y[Rows] # e.y[Rows - 1]
              /\ AdjustedAlpha(e.span, Rows) # AdjustedAlpha(e.span, 2)
              /\ AdjustedAlpha(e.span, Rows) # Alpha(e.span)

---------------------------------------------------------------------------
(* The residues against small exact rationals and against the primes *)

RECURSIVE Pow(_, _)
Pow(b, e) == IF e = 0 THEN 1 ELSE b * Pow(b, e - 1)

\* The weighted mean of rows 1..k of a column of small rationals, weights
\* (span - 1)^j * (span + 1)^(k - 1 - j) on the row j back, as one fraction
RECURSIVE WeightedSum(_, _, _, _)
WeightedSum(x, span, k, j) ==
    IF j > k - 1 THEN RatInt(0)
    ELSE RatAdd(RatMul(RatInt(Pow(span - 1, j) * Pow(span + 1, k - 1 - j)),
                       x[k - j]),
                WeightedSum(x, span, k, j + 1))

RECURSIVE WeightTotal(_, _, _)
WeightTotal(span, k, j) ==
    IF j > k - 1 THEN 0
    ELSE Pow(span - 1, j) * Pow(span + 1, k - 1 - j) + WeightTotal(span, k, j + 1)

WeightedMean(x, span, k) ==
    RatDiv(WeightedSum(x, span, k, 0), RatInt(WeightTotal(span, k, 0)))

\* The rows whose fractions fit machine integers, three of EMA12 and EMA26
\* and two of Signal, are the residues of those fractions: for closes
\* 100, 101, 102 the third row of EMA12 is 43756 / 433.
FirstRowsExact ==
    pc = "return" =>
        /\ \A k \in 1..(IF Rows < 3 THEN Rows ELSE 3) :
              /\ ret.EMA12[k] = BigRat(WeightedMean(ret.Close, EMA_FAST, k))
              /\ ret.EMA26[k] = BigRat(WeightedMean(ret.Close, EMA_SLOW, k))
        /\ \A k \in 1..(IF Rows < 2 THEN Rows ELSE 2) :
              ret.Signal[k] =
                  BigRat(WeightedMean(
                      [j \in 1..2 |-> RatSub(WeightedMean(ret.Close, EMA_FAST, j),
                                             WeightedMean(ret.Close, EMA_SLOW, j))],
                      EMA_SIGNAL, k))

\* PRIMES are distinct primes whose squares fit machine integers, and none
\* divides a denominator of the EMA rows: span + 1, a weight sum or
\* 1 - (1 - alpha)^k
PrimesFit ==
    \A m \in 1..Len(PRIMES) :
        LET p == PRIMES[m] IN
        /\ p * p < 2147483647
        /\ \A d \in 2..216 : p % d # 0
        /\ m > 1 => p < PRIMES[m - 1]
        /\ \A c \in 1..Len(EMA_SPANS) :
              /\ (EMA_SPANS[c] + 1) % p # 0
              /\ \A k \in 1..MaxLen :
                    /\ WeightSum(DECAY[c][m], p, k) # 0
                    /\ (1 - PowMod(DECAY[c][m], k, p)) % p # 0

=============================================================================
